---- MODULE Spec2Model ----
(***************************************************************************)
(* Model of error-report: the cause-chain walker CleanedErrorText          *)
(* (src/src/clean.rs) and the renderer Report::format with its Debug and   *)
(* Display entry points (src/src/lib.rs).                                  *)
(*                                                                         *)
(* A string is a sequence of one-character strings.  An error is named by  *)
(* its position in the chain: error 1 is the head, error e+1 is the source *)
(* of error e, and the last error has no source.                           *)
(***************************************************************************)
EXTENDS Integers, Sequences, FiniteSets, TLC

\* Longest cause chain explored (number of errors, head included).
MaxDepth == 3

\* Calls to next() the direct client makes after the walk has ended.
ExtraCalls == 2

\* ------------------------------------------------------------------------
\* The error chains explored.  An error displays either a text of its own
\* or a prefix followed by the display text of its source.

OwnTexts == { <<>>, <<"a">>, <<"a", ":", " ">> }

EmbeddingPrefixes ==
    { <<>>, <<"a">>, <<":", " ">>, <<"a", ":", " ">>,
      <<"a", " ", ":", " ">>, <<"a", " ", ":", ":", " ">> }

RootTexts == OwnTexts

WrapperTexts(source_text) ==
    OwnTexts \cup { p \o source_text : p \in EmbeddingPrefixes }

RECURSIVE ChainsOfDepth(_)
ChainsOfDepth(n) ==
    IF n = 1 THEN { <<r>> : r \in RootTexts }
    ELSE UNION { { <<w>> \o c : w \in WrapperTexts(c[1]) } : c \in ChainsOfDepth(n - 1) }

Chains == UNION { ChainsOfDepth(n) : n \in 1..MaxDepth }

\* ------------------------------------------------------------------------
\* std::error::Error as the walker uses it.

to_string(chain, err) == chain[err]

NoError == [some |-> FALSE, error |-> 0]

source(chain, err) ==
    IF err < Len(chain) THEN [some |-> TRUE, error |-> err + 1] ELSE NoError

\* ------------------------------------------------------------------------
\* str helpers used by next().

IsWhitespace(c) == c \in {" ", "\t", "\n"}

NoText == [some |-> FALSE, text |-> <<>>]

strip_suffix(s, suffix) ==
    IF Len(suffix) <= Len(s)
       /\ SubSeq(s, Len(s) - Len(suffix) + 1, Len(s)) = suffix
    THEN [some |-> TRUE, text |-> SubSeq(s, 1, Len(s) - Len(suffix))]
    ELSE NoText

RECURSIVE trim_end(_)
trim_end(s) ==
    IF s # <<>> /\ IsWhitespace(s[Len(s)])
    THEN trim_end(SubSeq(s, 1, Len(s) - 1))
    ELSE s

\* clean_closure stripping the colon before trimming.
clean_closure_colon_first(text) ==
    LET colon == strip_suffix(text, <<":">>)
    IN  trim_end(IF colon.some THEN colon.text ELSE text)

\* trim_end_matches(':'): every trailing colon goes, not one.
RECURSIVE strip_all_colons(_)
strip_all_colons(s) ==
    IF strip_suffix(s, <<":">>).some
    THEN strip_all_colons(strip_suffix(s, <<":">>).text)
    ELSE s

clean_closure_all_colons(text) == strip_all_colons(trim_end(text))

\* The closure mapped over the stripped text.
clean_closure(text) ==
    LET trimmed == trim_end(text)
        colon == strip_suffix(trimmed, <<":">>)
    IN  IF colon.some THEN colon.text ELSE trimmed

\* ------------------------------------------------------------------------
\* CleanedErrorText: Option<CleanedErrorTextStep>.

NoStep == [some |-> FALSE, error |-> 0, error_text |-> <<>>]

CleanedErrorTextStep_new(chain, err) ==
    [some |-> TRUE, error |-> err, error_text |-> to_string(chain, err)]

CleanedErrorText_new(chain, err) == CleanedErrorTextStep_new(chain, err)

NoItem == [some |-> FALSE, error |-> 0, text |-> <<>>, cleaned |-> FALSE]

Item(err, text, cleaned) ==
    [some |-> TRUE, error |-> err, text |-> text, cleaned |-> cleaned]

\* next() reading the slot without take(): the root's step stays in it.
slot_after_root_kept(step) == step

\* The slot next() leaves behind when the current error has no source.
slot_after_root(step) == NoStep

\* The step next() stores for the source.
next_step(src, source_text) ==
    [some |-> TRUE, error |-> src, error_text |-> source_text]

\* The text and flag next() emits for an error that has a source.
cleaned_pair(error_text, source_text) ==
    LET stripped == strip_suffix(error_text, source_text)
    IN  IF stripped.some
        THEN [text |-> clean_closure(stripped.text), cleaned |-> TRUE]
        ELSE [text |-> error_text, cleaned |-> FALSE]

\* next() calling to_string() on the current error again instead of using
\* the text saved in the step.
CleanedErrorText_next_recomputing(chain, slot) ==
    IF ~slot.some
    THEN [item |-> NoItem, slot |-> NoStep,
          to_string_calls |-> {}, source_calls |-> {}]
    ELSE LET src == source(chain, slot.error)
             error_text == to_string(chain, slot.error)
         IN  IF src.some
             THEN LET source_text == to_string(chain, src.error)
                      pair == cleaned_pair(error_text, source_text)
                  IN  [item |-> Item(slot.error, pair.text, pair.cleaned),
                       slot |-> next_step(src.error, source_text),
                       to_string_calls |-> {slot.error, src.error},
                       source_calls |-> {slot.error}]
             ELSE [item |-> Item(slot.error, error_text, FALSE),
                   slot |-> slot_after_root(slot),
                   to_string_calls |-> {slot.error},
                   source_calls |-> {slot.error}]

\* One call of next() on the slot: the item returned, the slot afterwards,
\* and the errors whose to_string() and source() the call invoked.
CleanedErrorText_next(chain, slot) ==
    IF ~slot.some
    THEN [item |-> NoItem, slot |-> NoStep,
          to_string_calls |-> {}, source_calls |-> {}]
    ELSE LET src == source(chain, slot.error)
         IN  IF src.some
             THEN LET source_text == to_string(chain, src.error)
                      pair == cleaned_pair(slot.error_text, source_text)
                  IN  [item |-> Item(slot.error, pair.text, pair.cleaned),
                       slot |-> next_step(src.error, source_text),
                       to_string_calls |-> {src.error},
                       source_calls |-> {slot.error}]
             ELSE [item |-> Item(slot.error, slot.error_text, FALSE),
                   slot |-> slot_after_root(slot),
                   to_string_calls |-> {},
                   source_calls |-> {slot.error}]

\* ------------------------------------------------------------------------
\* Report::format: the filter, the enumerate counter and the writes.

\* A filter that lets every entry through.
filter_keeps_all(item) == TRUE

\* The predicate of .filter(): entries with an empty cleaned text are skipped.
filter_keeps(item) == item.text # <<>>

InlineSeparator == <<":", " ">>

CausedByBlock ==
    <<"\n", "\n", "C", "a", "u", "s", "e", "d", " ", "b", "y", ":", "\n">>

Indent == <<" ", " ", " ", " ">>

Digits == <<"0", "1", "2", "3", "4", "5", "6", "7", "8", "9">>

\* Display of a usize: its decimal digits.
RECURSIVE usize_to_string(_)
usize_to_string(n) ==
    IF n < 10 THEN <<Digits[n + 1]>>
    ELSE usize_to_string(n \div 10) \o <<Digits[(n % 10) + 1]>>

\* The separator written after every entry instead of between entries.
inline_writes_trailing(i, text) == <<text, InlineSeparator>>

\* The strings the inline branch hands to the sink for entry number i.
inline_writes(i, text) ==
    (IF i > 0 THEN <<InlineSeparator>> ELSE <<>>) \o <<text>>

\* The "Caused by" block written before every numbered line (i >= 1).
multiline_writes_block_each(i, text) ==
    IF i = 0 THEN <<text>>
    ELSE <<CausedByBlock, Indent, usize_to_string(i), <<".", " ">>, text, <<"\n">>>>

\* The strings the multiline branch hands to the sink for entry number i.
multiline_writes(i, text) ==
    IF i = 0 THEN <<text>>
    ELSE (IF i = 1 THEN <<CausedByBlock>> ELSE <<>>)
         \o <<Indent, usize_to_string(i), <<".", " ">>, text, <<"\n">>>>

format_writes(multiline, i, text) ==
    IF ~multiline THEN inline_writes(i, text) ELSE multiline_writes(i, text)

\* Display ignoring the alternate flag.
Display_multiline_never(alt) == FALSE

\* The multiline argument each entry point passes to format.
Debug_multiline(alt) == TRUE

Display_multiline(alt) == alt

\* The result of the write dropped (no ? operator): format carries on.
after_failed_write_ignored(pieces) ==
    [pc |-> IF Tail(pieces) = <<>> THEN "loop" ELSE "write",
     result |-> "None", pending |-> Tail(pieces)]

\* What the formatter does once a write has returned Err: the ? operator
\* returns the failure to the caller.
after_failed_write(pieces) == [pc |-> "done", result |-> "Err", pending |-> <<>>]

\* ------------------------------------------------------------------------
\* State.

VARIABLES
    chain,         \* display text of each error of the chain, head first
    pc,            \* "idle", "walk" (a client iterates), "loop" and "write"
                   \* (inside format), "done" (format has returned)
    it,            \* the CleanedErrorText slot
    yielded,       \* what the client's calls to next() returned, in order
    text_calls,    \* per error: to_string() calls since the walker was built
    source_calls,  \* per error: source() calls since the walker was built
    trait,         \* entry point of the render: "Debug" or "Display"
    alternate,     \* Formatter::alternate() of the render
    multiline,     \* the argument of format
    i,             \* the enumerate() counter
    pending,       \* strings of the current entry not yet handed to the sink
    out,           \* what the sink has accepted during the render
    result,        \* "None" while running, then "Ok" or "Err"
    sink_failed,   \* a write of the render has returned Err
    prev           \* the last render before this one that returned Ok

vars == <<chain, pc, it, yielded, text_calls, source_calls, trait, alternate,
          multiline, i, pending, out, result, sink_failed, prev>>

NoRender ==
    [valid |-> FALSE, trait |-> "None", alternate |-> FALSE,
     multiline |-> FALSE, out |-> <<>>]

ZeroCalls == [e \in 1..Len(chain) |-> 0]

Count(calls, errs) ==
    [e \in DOMAIN calls |-> IF e \in errs THEN calls[e] + 1 ELSE calls[e]]

Init ==
    /\ chain \in Chains
    /\ pc = "idle"
    /\ it = NoStep
    /\ yielded = <<>>
    /\ text_calls = ZeroCalls
    /\ source_calls = ZeroCalls
    /\ trait = "None"
    /\ alternate = FALSE
    /\ multiline = FALSE
    /\ i = 0
    /\ pending = <<>>
    /\ out = <<>>
    /\ result = "None"
    /\ sink_failed = FALSE
    /\ prev = NoRender

\* No call is in progress: the client may start a walk or a render.
AtRest == pc \in {"idle", "walk", "done"}

\* The render that has just returned Ok becomes the previous one.
Retired ==
    IF pc = "done" /\ result = "Ok"
    THEN [valid |-> TRUE, trait |-> trait, alternate |-> alternate,
          multiline |-> multiline, out |-> out]
    ELSE prev

\* A client builds the walker on the head error (cleaned_errors / new).
cleaned_errors ==
    /\ AtRest
    /\ pc' = "walk"
    /\ it' = CleanedErrorText_new(chain, 1)
    /\ yielded' = <<>>
    /\ text_calls' = Count(ZeroCalls, {1})
    /\ source_calls' = ZeroCalls
    /\ trait' = "None"
    /\ alternate' = FALSE
    /\ multiline' = FALSE
    /\ i' = 0
    /\ pending' = <<>>
    /\ out' = <<>>
    /\ result' = "None"
    /\ sink_failed' = FALSE
    /\ prev' = Retired
    /\ UNCHANGED chain

\* The client calls next().
client_next ==
    /\ pc = "walk"
    /\ Len(yielded) < Len(chain) + ExtraCalls
    /\ LET r == CleanedErrorText_next(chain, it)
       IN  /\ it' = r.slot
           /\ yielded' = Append(yielded, r.item)
           /\ text_calls' = Count(text_calls, r.to_string_calls)
           /\ source_calls' = Count(source_calls, r.source_calls)
    /\ UNCHANGED <<chain, pc, trait, alternate, multiline, i, pending, out,
                   result, sink_failed, prev>>

\* format on a walker kept in the Report between renders.
format_reusing_walker(tr, alt, ml) ==
    /\ AtRest
    /\ pc' = "loop"
    /\ it' = IF pc = "done" THEN it ELSE CleanedErrorText_new(chain, 1)
    /\ yielded' = <<>>
    /\ text_calls' = Count(ZeroCalls, {1})
    /\ source_calls' = ZeroCalls
    /\ trait' = tr
    /\ alternate' = alt
    /\ multiline' = ml
    /\ i' = 0
    /\ pending' = <<>>
    /\ out' = <<>>
    /\ result' = "None"
    /\ sink_failed' = FALSE
    /\ prev' = Retired
    /\ UNCHANGED chain

\* format up to its loops: the chain of adapters is built on the head error.
format(tr, alt, ml) ==
    /\ AtRest
    /\ pc' = "loop"
    /\ it' = CleanedErrorText_new(chain, 1)
    /\ yielded' = <<>>
    /\ text_calls' = Count(ZeroCalls, {1})
    /\ source_calls' = ZeroCalls
    /\ trait' = tr
    /\ alternate' = alt
    /\ multiline' = ml
    /\ i' = 0
    /\ pending' = <<>>
    /\ out' = <<>>
    /\ result' = "None"
    /\ sink_failed' = FALSE
    /\ prev' = Retired
    /\ UNCHANGED chain

Debug_fmt == \E alt \in BOOLEAN : format("Debug", alt, Debug_multiline(alt))

Display_fmt == \E alt \in BOOLEAN : format("Display", alt, Display_multiline(alt))

\* The for loop asks the filtered, enumerated walker for its next entry.
format_next ==
    /\ pc = "loop"
    /\ LET r == CleanedErrorText_next(chain, it)
       IN  /\ it' = r.slot
           /\ text_calls' = Count(text_calls, r.to_string_calls)
           /\ source_calls' = Count(source_calls, r.source_calls)
           /\ IF ~r.item.some
              THEN /\ pc' = "done"
                   /\ result' = "Ok"
                   /\ UNCHANGED <<i, pending>>
              ELSE IF ~filter_keeps(r.item)
              THEN UNCHANGED <<pc, result, i, pending>>
              ELSE /\ pc' = "write"
                   /\ pending' = format_writes(multiline, i, r.item.text)
                   /\ i' = i + 1
                   /\ UNCHANGED result
    /\ UNCHANGED <<chain, yielded, trait, alternate, multiline, out,
                   sink_failed, prev>>

\* The sink accepts the next string of the entry.
sink_write_ok ==
    /\ pc = "write"
    /\ out' = out \o Head(pending)
    /\ pending' = Tail(pending)
    /\ pc' = IF Tail(pending) = <<>> THEN "loop" ELSE "write"
    /\ UNCHANGED <<chain, it, yielded, text_calls, source_calls, trait,
                   alternate, multiline, i, result, sink_failed, prev>>

\* The sink refuses the next string of the entry.
sink_write_err ==
    /\ pc = "write"
    /\ sink_failed' = TRUE
    /\ LET a == after_failed_write(pending)
       IN  /\ pc' = a.pc
           /\ result' = a.result
           /\ pending' = a.pending
    /\ UNCHANGED <<chain, it, yielded, text_calls, source_calls, trait,
                   alternate, multiline, i, out, prev>>

Next ==
    \/ cleaned_errors
    \/ client_next
    \/ Debug_fmt
    \/ Display_fmt
    \/ format_next
    \/ sink_write_ok
    \/ sink_write_err

Spec == Init /\ [][Next]_vars

\* ------------------------------------------------------------------------
\* Vocabulary of the properties.

Min(a, b) == IF a < b THEN a ELSE b

Depth == Len(chain)

\* t ends with s as an exact trailing substring.
EndsWith(t, s) == \E j \in 0..Len(t) : SubSeq(t, j + 1, Len(t)) = s

WithoutSuffix(t, s) == SubSeq(t, 1, Len(t) - Len(s))

Whitespace == {" ", "\t", "\n"}

\* The longest prefix of t that does not end in whitespace.
RightTrimmed(t) ==
    LET j == CHOOSE n \in 0..Len(t) :
                 /\ \A m \in (n + 1)..Len(t) : t[m] \in Whitespace
                 /\ n = 0 \/ t[n] \notin Whitespace
    IN  SubSeq(t, 1, j)

WithoutOneColon(t) ==
    IF t # <<>> /\ t[Len(t)] = ":" THEN SubSeq(t, 1, Len(t) - 1) ELSE t

\* The entry the walk is to produce for error k of chain c.
ExpectedEntry(c, k) ==
    IF k < Len(c) /\ EndsWith(c[k], c[k + 1])
    THEN Item(k, WithoutOneColon(RightTrimmed(WithoutSuffix(c[k], c[k + 1]))), TRUE)
    ELSE Item(k, c[k], FALSE)

\* The entries the walker yields on chain c until its first None.
RECURSIVE WalkFrom(_, _, _)
WalkFrom(c, slot, fuel) ==
    IF fuel = 0 THEN <<>>
    ELSE LET r == CleanedErrorText_next(c, slot)
         IN  IF r.item.some THEN <<r.item>> \o WalkFrom(c, r.slot, fuel - 1)
             ELSE <<>>

Entries(c) == WalkFrom(c, CleanedErrorText_new(c, 1), Len(c) + 1)

CleanedTexts(c) == [k \in 1..Len(Entries(c)) |-> Entries(c)[k].text]

NonEmptyTexts(c) == SelectSeq(CleanedTexts(c), LAMBDA t : t # <<>>)

RECURSIVE JoinedBy(_, _)
JoinedBy(texts, sep) ==
    IF texts = <<>> THEN <<>>
    ELSE IF Len(texts) = 1 THEN texts[1]
    ELSE texts[1] \o sep \o JoinedBy(Tail(texts), sep)

InlineRendering(c) == JoinedBy(NonEmptyTexts(c), <<":", " ">>)

\* "    j. text\n" for the texts numbered from..Len(texts).
RECURSIVE NumberedLines(_, _)
NumberedLines(texts, j) ==
    IF j > Len(texts) THEN <<>>
    ELSE <<" ", " ", " ", " ">> \o usize_to_string(j - 1) \o <<".", " ">>
         \o texts[j] \o <<"\n">> \o NumberedLines(texts, j + 1)

CausedByText ==
    <<"\n", "\n">> \o <<"C", "a", "u", "s", "e", "d", " ", "b", "y", ":">> \o <<"\n">>

MultilineRendering(c) ==
    LET texts == NonEmptyTexts(c)
    IN  IF texts = <<>> THEN <<>>
        ELSE IF Len(texts) = 1 THEN texts[1]
        ELSE texts[1] \o CausedByText \o NumberedLines(texts, 2)

Returned == pc = "done"

ReturnedOk == pc = "done" /\ result = "Ok"

\* ------------------------------------------------------------------------
\* Properties.

\* C1: the calls to next() on a walker built on the head of a chain of
\* depth n return the errors 1..n in order, one entry each (entries with an
\* empty cleaned text included), and every call after the n-th returns None.
C1_WalkYieldsEachErrorOnce ==
    \A k \in 1..Len(yielded) :
        IF k <= Depth
        THEN yielded[k].some /\ yielded[k].error = k
        ELSE yielded[k] = NoItem

C1_Witness ==
    /\ pc = "walk"
    /\ Depth >= 2
    /\ Len(yielded) = Depth + ExtraCalls
    /\ \E k \in 1..Depth : yielded[k].some /\ yielded[k].text = <<>>

\* C2: entry k of the walk is (Ek, Tk', true), Tk' being Tk without the
\* source's text, right-trimmed, less one trailing colon, when Ek has a
\* source whose text is a trailing substring of Tk; it is (Ek, Tk, false)
\* otherwise.  Only the immediate source's text counts.
C2_EntryIsCleanedAgainstImmediateCause ==
    \A k \in 1..Min(Len(yielded), Depth) : yielded[k] = ExpectedEntry(chain, k)

C2_Witness ==
    /\ pc = "walk"
    /\ Depth >= 3
    /\ Len(yielded) >= 2
    /\ chain[3] # <<>>
    /\ EndsWith(chain[1], chain[3])
    /\ ~yielded[1].cleaned
    /\ yielded[2].cleaned
    /\ yielded[2].text # WithoutSuffix(chain[2], chain[3])
    /\ yielded[2].text # RightTrimmed(WithoutSuffix(chain[2], chain[3]))

\* C3: an inline render that returns Ok has written the non-empty cleaned
\* texts, head first, joined by ": ", and nothing else.
C3_InlineIsJoinOfNonEmptyTexts ==
    ReturnedOk /\ ~multiline => out = InlineRendering(chain)

C3_Witness ==
    /\ ReturnedOk
    /\ ~multiline
    /\ Len(NonEmptyTexts(chain)) >= 2
    /\ Len(NonEmptyTexts(chain)) < Depth

\* C4: a multiline render that returns Ok has written the first non-empty
\* cleaned text alone when there is no other, and otherwise that text, one
\* "Caused by" block, and one numbered line per further non-empty text,
\* numbered from 1 over the written entries.
C4_MultilineIsHeadThenNumberedCauses ==
    ReturnedOk /\ multiline /\ NonEmptyTexts(chain) # <<>>
        => out = MultilineRendering(chain)

C4_Witness ==
    /\ ReturnedOk
    /\ multiline
    /\ Depth >= 3
    /\ CleanedTexts(chain)[2] = <<>>
    /\ Len(NonEmptyTexts(chain)) >= 2
    /\ out # InlineRendering(chain)

\* C5: Debug renders multiline whatever the alternate flag; Display renders
\* inline without the alternate flag and multiline with it; so the output of
\* Display with the flag and the output of Debug on the same Report agree.
C5_DebugIsMultilineDisplayFollowsAlternate ==
    ReturnedOk =>
        /\ trait = "Debug" => out = MultilineRendering(chain)
        /\ trait = "Display" /\ alternate => out = MultilineRendering(chain)
        /\ trait = "Display" /\ ~alternate => out = InlineRendering(chain)
        /\ prev.valid /\ prev.trait = "Debug" /\ trait = "Display" /\ alternate
               => out = prev.out
        /\ prev.valid /\ prev.trait = "Display" /\ prev.alternate /\ trait = "Debug"
               => out = prev.out

C5_Witness ==
    /\ ReturnedOk
    /\ trait = "Display"
    /\ alternate
    /\ prev.valid
    /\ prev.trait = "Debug"
    /\ ~prev.alternate
    /\ Len(NonEmptyTexts(chain)) >= 2
    /\ InlineRendering(chain) # MultilineRendering(chain)

\* The output of rendering the given texts in order, none of them skipped.
RECURSIVE Concatenated(_)
Concatenated(pieces) ==
    IF pieces = <<>> THEN <<>> ELSE Head(pieces) \o Concatenated(Tail(pieces))

RECURSIVE RenderedUnfiltered(_, _, _)
RenderedUnfiltered(ml, texts, k) ==
    IF k > Len(texts) THEN <<>>
    ELSE Concatenated(format_writes(ml, k - 1, texts[k]))
         \o RenderedUnfiltered(ml, texts, k + 1)

\* The for loop is about to take an entry whose cleaned text is empty.
TakesEmptyEntry ==
    /\ pc = "loop"
    /\ CleanedErrorText_next(chain, it).item.some
    /\ CleanedErrorText_next(chain, it).item.text = <<>>

\* C6: in both modes an entry whose cleaned text is empty writes nothing and
\* does not advance the index, and the output of a render is the output for
\* the entries with the empty ones removed.
C6_EmptyEntriesContributeNothing ==
    /\ [](ReturnedOk =>
            out = RenderedUnfiltered(multiline, NonEmptyTexts(chain), 1))
    /\ [][TakesEmptyEntry =>
            out' = out /\ i' = i /\ pending' = <<>> /\ pc' = "loop"]_vars

C6_Witness ==
    /\ ReturnedOk
    /\ Depth >= 2
    /\ CleanedTexts(chain)[1] = <<>>
    /\ NonEmptyTexts(chain) # <<>>
    /\ out = NonEmptyTexts(chain)[1]

\* C7: format returns Err only when a write to the sink has failed, returns
\* Ok when none has, and after a failed write it has returned and writes
\* nothing more.
C7_ErrOnlyFromSinkAndStopsAtOnce ==
    /\ [](result = "Err" => sink_failed)
    /\ [](Returned /\ ~sink_failed => result = "Ok")
    /\ [](sink_failed => Returned /\ result = "Err" /\ pending = <<>>)
    /\ [][sink_failed /\ sink_failed' => out' = out]_vars

C7_Witness ==
    /\ sink_failed
    /\ Returned
    /\ result = "Err"
    /\ out # <<>>
    /\ out # InlineRendering(chain)
    /\ out # MultilineRendering(chain)

\* C8: two renders of the same Report in the same mode that return Ok have
\* written the same output, and no step changes the chain.
C8_RenderingTwiceGivesSameOutput ==
    /\ [](ReturnedOk /\ prev.valid /\ prev.multiline = multiline
            => out = prev.out)
    /\ [][chain' = chain]_vars

C8_Witness ==
    /\ ReturnedOk
    /\ prev.valid
    /\ prev.multiline = multiline
    /\ Len(NonEmptyTexts(chain)) >= 2

TextComputed == { e \in 1..Depth : text_calls[e] > 0 }

Inspected == { e \in 1..Depth : text_calls[e] > 0 \/ source_calls[e] > 0 }

\* C9: after construction and k calls to next() on a chain of depth n the
\* display texts of exactly the first min(k+1, n) errors have been computed,
\* each once, and no error further down the chain has been inspected.
C9_WalkIsLazyAndComputesEachTextOnce ==
    pc = "walk" =>
        LET k == Len(yielded)
        IN  /\ TextComputed = 1..Min(k + 1, Depth)
            /\ \A e \in 1..Depth : text_calls[e] <= 1
            /\ Inspected \subseteq 1..(k + 1)
            /\ it.some => it.error = k + 1 /\ it.error_text = chain[k + 1]

C9_Witness ==
    /\ pc = "walk"
    /\ Depth >= 3
    /\ Len(yielded) = 1
    /\ TextComputed = {1, 2}
    /\ 3 \notin Inspected

\* Every error but the root displays as a non-empty prefix, ": ", and the
\* display text of its source; the root's display text is not empty.
EmbedsCauses(c) ==
    /\ c[Len(c)] # <<>>
    /\ \A k \in 1..(Len(c) - 1) :
           /\ Len(c[k]) > Len(c[k + 1]) + 2
           /\ EndsWith(c[k], <<":", " ">> \o c[k + 1])

PrefixOf(c, k) == SubSeq(c[k], 1, Len(c[k]) - Len(c[k + 1]) - 2)

\* C10: on such a chain every entry but the root's is the prefix, cleaned,
\* and the inline rendering is the display text of the head.
C10_InlineOfEmbeddingChainIsHeadText ==
    EmbedsCauses(chain) =>
        /\ Len(Entries(chain)) = Depth
        /\ \A k \in 1..(Depth - 1) :
               Entries(chain)[k].cleaned /\ Entries(chain)[k].text = PrefixOf(chain, k)
        /\ \A k \in 1..Min(Len(yielded), Depth - 1) :
               yielded[k].cleaned /\ yielded[k].text = PrefixOf(chain, k)
        /\ ReturnedOk /\ ~multiline => out = chain[1]

C10_Witness ==
    /\ EmbedsCauses(chain)
    /\ Depth >= 3
    /\ ReturnedOk
    /\ ~multiline
    /\ out = chain[1]
    /\ PrefixOf(chain, 1) # PrefixOf(chain, 2)

====
